---------------------------- MODULE Spec2Model ----------------------------
(* The four example hooks of examples/hooks-example/hooks: each run reads  *)
(* one JSON document from standard input, evaluates its rules, writes to   *)
(* standard output and/or the error channel and exits with a status.       *)
EXTENDS Integers, Sequences, FiniteSets, TLC

VARIABLES hook, input_data, pc, stdout, stderr, exit_status, launched,
          run_outcome, elapsed

vars == <<hook, input_data, pc, stdout, stderr, exit_status, launched,
          run_outcome, elapsed>>

-----------------------------------------------------------------------------
(* Characters and strings.  A string is a sequence of one-character        *)
(* strings; a text is a string s followed by n copies of Fill, so that a   *)
(* prompt of 10001 characters is a value the model can hold.               *)

UpperCase == <<"A","B","C","D","E","F","G","H","I","J","K","L","M",
               "N","O","P","Q","R","S","T","U","V","W","X","Y","Z">>
LowerCase == <<"a","b","c","d","e","f","g","h","i","j","k","l","m",
               "n","o","p","q","r","s","t","u","v","w","x","y","z">>
Range(f) == {f[i] : i \in DOMAIN f}
Alpha == Range(UpperCase) \cup Range(LowerCase)
Digit == {"0","1","2","3","4","5","6","7","8","9"}
Fill == "!"
NoChar == ""

\* str.lower() on one character
lower(c) ==
    IF c \in Range(UpperCase)
    THEN LowerCase[CHOOSE i \in DOMAIN UpperCase : UpperCase[i] = c]
    ELSE c

TLen(x) == Len(x.s) + x.n

\* the character at position i (1-based), NoChar outside the text
At(x, i) ==
    IF i >= 1 /\ i <= Len(x.s) THEN x.s[i]
    ELSE IF i > Len(x.s) /\ i <= TLen(x) THEN Fill
    ELSE NoChar

\* x.lower()
Lowered(x) == [x EXCEPT !.s = [i \in DOMAIN x.s |-> lower(x.s[i])]]

\* the literal lit occurs in x at position i
OccursAt(x, i, lit) == \A k \in 1..Len(lit) : At(x, i + k - 1) = lit[k]

\* lit in x
Contains(x, lit) == \E i \in 1..TLen(x) : OccursAt(x, i, lit)

\* x.endswith(lit)
EndsWith(x, lit) ==
    /\ TLen(x) >= Len(lit)
    /\ OccursAt(x, TLen(x) - Len(lit) + 1, lit)

-----------------------------------------------------------------------------
(* JSON values as json.load returns them.  t is the Python type; s and n   *)
(* hold a str, n a number, b a bool.                                       *)

Absent == [t |-> "absent", s |-> <<>>, n |-> 0, b |-> FALSE]
Null   == [t |-> "null",   s |-> <<>>, n |-> 0, b |-> FALSE]
Str(s) == [t |-> "str",    s |-> s,    n |-> 0, b |-> FALSE]
Padded(s, n) == [t |-> "str", s |-> s, n |-> n, b |-> FALSE]
Num(n) == [t |-> "num",    s |-> <<>>, n |-> n, b |-> FALSE]
Bool(b) == [t |-> "bool",  s |-> <<>>, n |-> 0, b |-> b]
Dict   == [t |-> "dict",   s |-> <<>>, n |-> 0, b |-> FALSE]

\* variant: dict.get(key), which gives None for a missing key
GetNoDefault(v, default) == IF v.t = "absent" THEN Null ELSE v

\* dict.get(key, default): the default only when the key is missing
Get(v, default) == IF v.t = "absent" THEN default ELSE v

\* variant: "is not None" in place of the truth test
TruthyIsNotNone(v) == v.t # "null"

\* Python truth value of a JSON value
Truthy(v) ==
    CASE v.t = "bool" -> v.b
      [] v.t = "num"  -> v.n # 0
      [] v.t = "str"  -> TLen(v) > 0
      [] v.t = "null" -> FALSE

-----------------------------------------------------------------------------
(* Regular expressions of the prompt validator, as re.search decides them: *)
(* a pattern matches when some start position and some choice of the       *)
(* repetition counts match.                                                *)

Space == {" ", "\t", "\n"}
IsWord(c) == c \in Alpha \cup Digit \cup {"_"}

\* \b between positions i-1 and i
WordBoundary(x, i) == IsWord(At(x, i - 1)) # IsWord(At(x, i))

\* the k characters from position i are all in class
AllIn(x, i, k, class) == \A j \in i..(i + k - 1) : At(x, j) \in class

\* variant: the literal without (?i)
OccursAtSameCase(x, i, lit) ==
    \A k \in 1..Len(lit) : At(x, i + k - 1) = lit[k]

\* (?i) literal at position i; lit is in lower case
OccursAtIgnoreCase(x, i, lit) ==
    \A k \in 1..Len(lit) : lower(At(x, i + k - 1)) = lit[k]

\* Start positions re.search tries.  Every pattern below begins with a
\* letter, a digit or an e-mail local-part character, none of which is Fill,
\* so no match starts inside the trailing run of Fill.
Starts(x) == 1..Len(x.s)

\* Repetition counts to try for \s*, \s+ and the e-mail parts: runs of these
\* classes hold no Fill, so none is longer than the string part.
Counts(x, from) == from..Len(x.s)

Keywords == {<<"p","a","s","s","w","o","r","d">>, <<"s","e","c","r","e","t">>,
             <<"k","e","y">>, <<"t","o","k","e","n">>}

\* (?i)\b(password|secret|key|token)\s*[:=]
CredentialKeyword(x) ==
    \E i \in Starts(x) :
        /\ WordBoundary(x, i)
        /\ \E w \in Keywords :
            /\ OccursAtIgnoreCase(x, i, w)
            /\ \E k \in Counts(x, 0) :
                /\ AllIn(x, i + Len(w), k, Space)
                /\ At(x, i + Len(w) + k) \in {":", "="}

\* (?i)first\s+second
TwoWords(x, first, second) ==
    \E i \in Starts(x) :
        /\ OccursAtIgnoreCase(x, i, first)
        /\ \E k \in Counts(x, 1) :
            /\ AllIn(x, i + Len(first), k, Space)
            /\ OccursAtIgnoreCase(x, i + Len(first) + k, second)

\* (?i)delete\s+all
DeleteAll(x) == TwoWords(x, <<"d","e","l","e","t","e">>, <<"a","l","l">>)

\* (?i)drop\s+table
DropTable(x) == TwoWords(x, <<"d","r","o","p">>, <<"t","a","b","l","e">>)

\* [-\s]? taking k (0 or 1) characters at position i
OptSep(x, i, k) == k = 0 \/ At(x, i) \in Space \cup {"-"}

\* \b\d{4}[-\s]?\d{4}[-\s]?\d{4}[-\s]?\d{4}\b
CardNumber(x) ==
    \E i \in Starts(x) :
        /\ WordBoundary(x, i)
        /\ AllIn(x, i, 4, Digit)
        /\ \E a \in 0..1 :
            /\ OptSep(x, i + 4, a)
            /\ AllIn(x, i + 4 + a, 4, Digit)
            /\ \E b \in 0..1 :
                /\ OptSep(x, i + 8 + a, b)
                /\ AllIn(x, i + 8 + a + b, 4, Digit)
                /\ \E c \in 0..1 :
                    /\ OptSep(x, i + 12 + a + b, c)
                    /\ AllIn(x, i + 12 + a + b + c, 4, Digit)
                    /\ WordBoundary(x, i + 16 + a + b + c)

LocalPart == Alpha \cup Digit \cup {".", "_", "%", "+", "-"}
DomainPart == Alpha \cup Digit \cup {".", "-"}

\* \b[A-Za-z0-9._%+-]+@[A-Za-z0-9.-]+\.[A-Za-z]{2,}\b
EmailAddress(x) ==
    \E i \in Starts(x) :
        /\ WordBoundary(x, i)
        /\ \E a \in Counts(x, 1) :
            /\ AllIn(x, i, a, LocalPart)
            /\ At(x, i + a) = "@"
            /\ \E b \in Counts(x, 1) :
                /\ AllIn(x, i + a + 1, b, DomainPart)
                /\ At(x, i + a + 1 + b) = "."
                /\ \E c \in Counts(x, 2) :
                    /\ AllIn(x, i + a + b + 2, c, Alpha)
                    /\ WordBoundary(x, i + a + b + 2 + c)

\* the descriptions of sensitive_patterns, in list order
sensitive_patterns ==
    <<"Password/Secret detected", "Dangerous delete operation",
      "Dangerous SQL operation", "Credit card number pattern",
      "Email address">>

\* re.search(pattern k of sensitive_patterns, prompt)
Search(k, x) ==
    CASE k = 1 -> CredentialKeyword(x)
      [] k = 2 -> DeleteAll(x)
      [] k = 3 -> DropTable(x)
      [] k = 4 -> CardNumber(x)
      [] k = 5 -> EmailAddress(x)

Matching(x) == {k \in DOMAIN sensitive_patterns : Search(k, x)}

Min(S) == CHOOSE m \in S : \A k \in S : m <= k
Max(S) == CHOOSE m \in S : \A k \in S : m >= k

\* variant: the loop without its sys.exit, so that the last match decides
LastMatch(x) == IF Matching(x) = {} THEN 0 ELSE Max(Matching(x))

\* the loop over sensitive_patterns: the index at which it exits, 0 if it
\* runs to the end
FirstMatch(x) == IF Matching(x) = {} THEN 0 ELSE Min(Matching(x))

-----------------------------------------------------------------------------
(* What a run writes and how it ends.  A line of standard output is a      *)
(* record: kind "block" / "augment" for the JSON documents, "info" for     *)
(* plain text; text is the fixed part and arg the interpolated part.       *)

Line(kind, text, arg) == [kind |-> kind, text |-> text, arg |-> arg]
Result(out, err, status) == [stdout |-> out, stderr |-> err, exit |-> status]

\* variant: the handler ending with sys.exit(0)
HookErrorExitsZero == Result(<<>>, <<"Hook error: ">>, 0)

\* except Exception as e: print(f"Hook error: {e}", file=sys.stderr); sys.exit(1)
HookError == Result(<<>>, <<"Hook error: ">>, 1)

IsStr(v, lit) == v.t = "str" /\ v.n = 0 /\ v.s = lit

TooLong == 10000
TooShort == 10

\* len(prompt) > 10000
IsTooLong(n) == n > TooLong

\* variant: len(prompt) <= 10
IsTooShortInclusive(n) == n <= TooShort

\* len(prompt) < 10
IsTooShort(n) == n < TooShort

BlockPattern(k) ==
    Line("block", "Prompt contains potentially sensitive information: ",
         <<sensitive_patterns[k]>>)
BlockLength == Line("block", "Prompt is too long (>10000 characters)", <<>>)
Augment ==
    Line("augment", "Note: This is a very short prompt. Consider providing more context for better results.",
         <<"UserPromptSubmit">>)

\* prompt-validator.py main(), from the parsed document to the exit
prompt_validator(d) ==
    IF d.doc # "object" THEN HookError
    ELSE LET prompt == Get(d.prompt, Str(<<>>)) IN
         IF prompt.t # "str" THEN HookError
         ELSE LET k == FirstMatch(prompt) IN
              IF k # 0 THEN Result(<<BlockPattern(k)>>, <<>>, 0)
              ELSE IF IsTooLong(TLen(prompt)) THEN Result(<<BlockLength>>, <<>>, 0)
              ELSE IF IsTooShort(TLen(prompt)) THEN Result(<<Augment>>, <<>>, 0)
              ELSE Result(<<>>, <<>>, 0)

dangerous_commands ==
    {<<"r","m"," ","-","r","f">>, <<"s","u","d","o">>,
     <<"f","o","r","m","a","t">>, <<"f","d","i","s","k">>, <<"m","k","f","s">>}
sensitive_files ==
    {<<".","e","n","v">>, <<"s","e","c","r","e","t","s">>,
     <<"i","d","_","r","s","a">>, <<"c","o","n","f","i","g",".","j","s","o","n">>}

Bash == <<"B","a","s","h">>
Write == <<"W","r","i","t","e">>

\* variant: any(lit in x for lit in lits), without lower()
AnyInExact(x, lits) == \E lit \in lits : Contains(x, lit)

\* any(lit in x.lower() for lit in lits)
AnyIn(x, lits) == \E lit \in lits : Contains(Lowered(x), lit)

DangerousBlocked ==
    Result(<<>>, <<"Security violation: Dangerous command blocked">>, 2)
SensitiveBlocked ==
    Result(<<>>, <<"Security violation: Cannot write to sensitive files">>, 2)
Passed == Result(<<Line("info", "Security check passed", <<>>)>>, <<>>, 0)
NoExit == Result(<<>>, <<>>, -1)

\* security-validator.py lines 18-25: the Bash check
BashCheck(tool_name, tool_input, d) ==
    IF ~IsStr(tool_name, Bash) THEN NoExit
    ELSE IF tool_input.t # "dict" THEN HookError
    ELSE LET command == Get(d.command, Str(<<>>)) IN
         IF command.t # "str" THEN HookError
         ELSE IF AnyIn(command, dangerous_commands) THEN DangerousBlocked
         ELSE NoExit

\* security-validator.py lines 28-34: the Write check
WriteCheck(tool_name, tool_input, d) ==
    IF ~IsStr(tool_name, Write) THEN NoExit
    ELSE IF tool_input.t # "dict" THEN HookError
    ELSE LET file_path == Get(d.file_path, Str(<<>>)) IN
         IF file_path.t # "str" THEN HookError
         ELSE IF AnyIn(file_path, sensitive_files) THEN SensitiveBlocked
         ELSE NoExit

\* security-validator.py main(), from the parsed document to the exit
security_validator(d) ==
    IF d.doc # "object" THEN HookError
    ELSE LET tool_name == Get(d.tool_name, Str(<<>>))
             tool_input == Get(d.tool_input, Dict)
             bash == BashCheck(tool_name, tool_input, d)
             write == WriteCheck(tool_name, tool_input, d)
         IN  IF bash # NoExit THEN bash
             ELSE IF write # NoExit THEN write
             ELSE Passed

Completed == Line("info", "Claude Code execution completed successfully", <<>>)

\* stop-controller.py main(), from the parsed document to the exit
stop_controller(d) ==
    IF d.doc # "object" THEN HookError
    ELSE LET stop_hook_active == Get(d.stop_hook_active, Bool(FALSE)) IN
         IF Truthy(stop_hook_active) THEN Result(<<>>, <<>>, 0)
         ELSE Result(<<Completed>>, <<>>, 0)

-----------------------------------------------------------------------------
(* auto-formatter.py: which formatter main() runs, and what it prints      *)

Py == <<".","p","y">>
Js == <<".","j","s">>
Ts == <<".","t","s">>

\* variant: the extension looked for anywhere in the path ("in" for endswith)
FormatterByContains(d) ==
    IF d.doc # "object" THEN "fault"
    ELSE IF ~IsStr(Get(d.tool_name, Str(<<>>)), Write) THEN "none"
    ELSE IF Get(d.tool_input, Dict).t # "dict" THEN "fault"
    ELSE IF Get(d.file_path, Str(<<>>)).t # "str" THEN "fault"
    ELSE IF Contains(d.file_path, Py) THEN "black"
    ELSE IF Contains(d.file_path, Js) \/ Contains(d.file_path, Ts) THEN "prettier"
    ELSE "none"

\* lines 15-36: "fault" when an exception is raised before any formatter
\* runs, else the program subprocess.run is called with, or "none"
Formatter(d) ==
    IF d.doc # "object" THEN "fault"
    ELSE LET tool_name == Get(d.tool_name, Str(<<>>))
             tool_input == Get(d.tool_input, Dict)
         IN  IF ~IsStr(tool_name, Write) THEN "none"
             ELSE IF tool_input.t # "dict" THEN "fault"
             ELSE LET file_path == Get(d.file_path, Str(<<>>)) IN
                  IF file_path.t # "str" THEN "fault"
                  ELSE IF EndsWith(file_path, Py) THEN "black"
                  ELSE IF EndsWith(file_path, Js) \/ EndsWith(file_path, Ts)
                       THEN "prettier"
                  ELSE "none"

\* timeout=10
Timeout == 10

\* what subprocess.run can do when it starts the program
Launches == {"started", "FileNotFoundError", "OSError"}
\* what a started program can do before the timeout: its return code, or
\* "error" when collecting its output raises
Returns == {"0", "1", "error"}

Formatted(d) == Line("info", "Auto-formatted: ", d.file_path.s)
FailedToFormat(d) == Line("info", "Failed to format: ", d.file_path.s)
NotAvailable(f, d) ==
    Line("info",
         IF f = "black" THEN "Black formatter not available for: "
                        ELSE "Prettier formatter not available for: ",
         d.file_path.s)

\* variant: a non-zero return code of the formatter fails the hook
AfterRunStrict(f, d, outcome) ==
    CASE outcome = "0" -> Result(<<Formatted(d)>>, <<>>, 0)
      [] outcome = "1" -> Result(<<FailedToFormat(d)>>, <<>>, 1)
      [] outcome \in {"TimeoutExpired", "FileNotFoundError"} ->
            Result(<<NotAvailable(f, d)>>, <<>>, 0)
      [] outcome \in {"OSError", "error"} -> HookError

\* lines 29-34 / 43-48 and line 50, or the handler of line 52: the rest of
\* main() once subprocess.run has returned or raised
AfterRun(f, d, outcome) ==
    CASE outcome = "0" -> Result(<<Formatted(d)>>, <<>>, 0)
      [] outcome = "1" -> Result(<<FailedToFormat(d)>>, <<>>, 0)
      [] outcome \in {"TimeoutExpired", "FileNotFoundError"} ->
            Result(<<NotAvailable(f, d)>>, <<>>, 0)
      [] outcome \in {"OSError", "error"} -> HookError

\* variant: subprocess.run without timeout=
NeverExpires(t) == FALSE

\* the wait of subprocess.run ends with TimeoutExpired
Expires(t) == t >= Timeout

-----------------------------------------------------------------------------
(* The run as a state machine.  "Evaluating": the document is on standard  *)
(* input and main() has not run; "Waiting": main() is inside               *)
(* subprocess.run; "Decided": the process has exited.  launched holds the  *)
(* program of each subprocess.run call, run_outcome what the last call     *)
(* did, elapsed the time units the started program has been running.       *)

Hooks == {"prompt-validator", "security-validator", "auto-formatter",
          "stop-controller"}

\* sys.exit(r.exit) after the writes of r
Exit(r) ==
    /\ pc' = "Decided"
    /\ stdout' = stdout \o r.stdout
    /\ stderr' = stderr \o r.stderr
    /\ exit_status' = Append(exit_status, r.exit)

PromptValidatorMain ==
    /\ hook = "prompt-validator"
    /\ pc = "Evaluating"
    /\ Exit(prompt_validator(input_data))
    /\ UNCHANGED <<hook, input_data, launched, run_outcome, elapsed>>

SecurityValidatorMain ==
    /\ hook = "security-validator"
    /\ pc = "Evaluating"
    /\ Exit(security_validator(input_data))
    /\ UNCHANGED <<hook, input_data, launched, run_outcome, elapsed>>

StopControllerMain ==
    /\ hook = "stop-controller"
    /\ pc = "Evaluating"
    /\ Exit(stop_controller(input_data))
    /\ UNCHANGED <<hook, input_data, launched, run_outcome, elapsed>>

\* main() up to the exit when no formatter runs
AutoFormatterMain ==
    /\ hook = "auto-formatter"
    /\ pc = "Evaluating"
    /\ Formatter(input_data) \in {"fault", "none"}
    /\ Exit(IF Formatter(input_data) = "fault" THEN HookError
            ELSE Result(<<>>, <<>>, 0))
    /\ UNCHANGED <<hook, input_data, launched, run_outcome, elapsed>>

\* main() up to the call of subprocess.run, which starts the program or
\* raises at once
AutoFormatterRun ==
    /\ hook = "auto-formatter"
    /\ pc = "Evaluating"
    /\ Formatter(input_data) \in {"black", "prettier"}
    /\ launched' = Append(launched, Formatter(input_data))
    /\ \E launch \in Launches :
        /\ run_outcome' = launch
        /\ IF launch = "started"
           THEN /\ pc' = "Waiting"
                /\ UNCHANGED <<stdout, stderr, exit_status>>
           ELSE Exit(AfterRun(Formatter(input_data), input_data, launch))
    /\ UNCHANGED <<hook, input_data, elapsed>>

\* one time unit passes while the program runs
Tick ==
    /\ pc = "Waiting"
    /\ elapsed < Timeout
    /\ elapsed' = elapsed + 1
    /\ UNCHANGED <<hook, input_data, pc, stdout, stderr, exit_status, launched,
                   run_outcome>>

\* the program ends within the wait
FormatterReturns ==
    /\ pc = "Waiting"
    /\ \E outcome \in Returns :
        /\ run_outcome' = outcome
        /\ Exit(AfterRun(launched[Len(launched)], input_data, outcome))
    /\ UNCHANGED <<hook, input_data, launched, elapsed>>

\* the wait is over: subprocess.run kills the program and raises
TimeoutExpired ==
    /\ pc = "Waiting"
    /\ Expires(elapsed)
    /\ run_outcome' = "TimeoutExpired"
    /\ Exit(AfterRun(launched[Len(launched)], input_data, "TimeoutExpired"))
    /\ UNCHANGED <<hook, input_data, launched, elapsed>>

Next ==
    \/ PromptValidatorMain
    \/ SecurityValidatorMain
    \/ StopControllerMain
    \/ AutoFormatterMain
    \/ AutoFormatterRun
    \/ Tick
    \/ FormatterReturns
    \/ TimeoutExpired

-----------------------------------------------------------------------------
(* The documents a run starts with.                                        *)

MaxPromptTokens == 3
MaxCommandTokens == 3
MaxPathTokens == 2
MaxFairTokens == 1

RECURSIVE Words(_, _)
\* the strings made of at most n pieces of V
Words(V, n) ==
    IF n = 0 THEN {<<>>}
    ELSE LET W == Words(V, n - 1) IN W \cup {w \o v : w \in W, v \in V}

PromptPieces ==
    {<<"P","a","s","s","W","o","r","d">>, <<":">>, <<" ">>, <<"x">>,
     <<"d","e","l","e","t","e"," ","a","l","l">>,
     <<"D","R","O","P"," "," ","T","a","b","l","e">>,
     <<"1","2","3","4","1","2","3","4">>,
     <<"a","@","b",".","c","o">>}
CommandPieces ==
    {<<"s","u","d","o">>, <<"S","u","D","o">>, <<" ">>,
     <<"a","p","t"," ","i","n","s","t","a","l","l">>,
     <<"r","m">>, <<"-","r","f">>}
PathPieces ==
    {<<"/","t","m","p","/">>, <<"n","o","t","e","s",".","t","x","t">>,
     <<".","e","n","v">>, <<".","E","N","V">>,
     <<"C","o","n","f","i","g",".","j","s","o","n">>,
     <<".","p","y">>, <<".","j","s">>, <<".","t","s">>, <<".","P","Y">>,
     <<"a">>}

\* the lengths on either side of the two length checks
EdgeLengths == {TooShort - 1, TooShort, TooLong, TooLong + 1}

\* each string of at most k pieces as it is, and filled up to each edge
\* length it is shorter than
Prompts(k) ==
    UNION {{Padded(w, n) : n \in {0} \cup {l - Len(w) : l \in {e \in EdgeLengths : e >= Len(w)}}}
           : w \in Words(PromptPieces, k)}

WrongTypes == {Null, Num(5), Bool(TRUE)}
ToolNames ==
    {Absent, Null, Num(5), Str(Bash), Str(Write), Str(<<"R","e","a","d">>), Str(<<>>)}
Commands(k) == {Str(w) : w \in Words(CommandPieces, k)}
Paths(k) == {Str(w) : w \in Words(PathPieces, k)}
Flags == {Absent, Null, Bool(TRUE), Bool(FALSE), Num(0), Num(1), Str(<<>>), Str(<<"x">>)}

Empty ==
    [doc |-> "object", tool_name |-> Absent, tool_input |-> Absent,
     command |-> Absent, file_path |-> Absent, prompt |-> Absent,
     stop_hook_active |-> Absent]

\* standard input that is not JSON, or is JSON and not an object
BadDocuments == {[Empty EXCEPT !.doc = k] : k \in {"invalid", "array"}}

PromptEvents(k) ==
    {[Empty EXCEPT !.prompt = v] : v \in Prompts(k) \cup WrongTypes \cup {Absent}}

\* tool_input missing or not an object
BareToolEvents ==
    {[Empty EXCEPT !.tool_name = tn, !.tool_input = ti] :
        tn \in ToolNames, ti \in {Absent, Null, Str(<<"x">>)}}
CommandEvents(k) ==
    {[Empty EXCEPT !.tool_name = tn, !.tool_input = Dict, !.command = c] :
        tn \in ToolNames, c \in Commands(k) \cup WrongTypes \cup {Absent}}
PathEvents(k) ==
    {[Empty EXCEPT !.tool_name = tn, !.tool_input = Dict, !.file_path = p] :
        tn \in ToolNames, p \in Paths(k) \cup WrongTypes \cup {Absent}}
\* both keys in tool_input
BothEvents ==
    {[Empty EXCEPT !.tool_name = tn, !.tool_input = Dict,
                   !.command = Str(<<"s","u","d","o">>), !.file_path = p] :
        tn \in ToolNames, p \in {Str(<<".","e","n","v">>), Str(<<"a",".","p","y">>)}}

StopEvents == {[Empty EXCEPT !.stop_hook_active = f] : f \in Flags}

\* the documents hook h is run on, with strings of at most np, nc and nf
\* pieces for the prompt, the command and the file path
Inputs(h, np, nc, nf) ==
    BadDocuments \cup
    CASE h = "prompt-validator" -> PromptEvents(np)
      [] h = "security-validator" ->
            BareToolEvents \cup CommandEvents(nc) \cup PathEvents(nf) \cup BothEvents
      [] h = "auto-formatter" -> BareToolEvents \cup PathEvents(nf) \cup BothEvents
      [] h = "stop-controller" -> StopEvents

\* the start of a run: the document is on standard input, nothing is written
Started ==
    /\ pc = "Evaluating"
    /\ stdout = <<>>
    /\ stderr = <<>>
    /\ exit_status = <<>>
    /\ launched = <<>>
    /\ run_outcome = "none"
    /\ elapsed = 0

Init ==
    /\ hook \in Hooks
    /\ input_data \in Inputs(hook, MaxPromptTokens, MaxCommandTokens, MaxPathTokens)
    /\ Started

Spec == Init /\ [][Next]_vars

\* every step but the formatter's own end
Progress ==
    \/ PromptValidatorMain
    \/ SecurityValidatorMain
    \/ StopControllerMain
    \/ AutoFormatterMain
    \/ AutoFormatterRun
    \/ Tick
    \/ TimeoutExpired

FairInit ==
    /\ hook \in Hooks
    /\ input_data \in Inputs(hook, MaxFairTokens, MaxFairTokens, MaxFairTokens)
    /\ Started

\* main() runs to its end, time passes while the formatter runs, and the
\* timeout is raised when it is due; the formatter itself need never end
FairSpec == FairInit /\ [][Next]_vars /\ WF_vars(Progress)

TypeOK ==
    /\ hook \in Hooks
    /\ pc \in {"Evaluating", "Waiting", "Decided"}
    /\ elapsed \in 0..Timeout
    /\ Len(launched) <= 1

-----------------------------------------------------------------------------
(* Properties                                                              *)

Done == pc = "Decided"
Object == input_data.doc = "object"
StrOrAbsent(v) == v.t \in {"str", "absent"}
DictOrAbsent(v) == v.t \in {"dict", "absent"}
Text(v) == Get(v, Str(<<>>))

\* every field of the document has the type the hooks expect of it
WellTyped ==
    /\ Object
    /\ StrOrAbsent(input_data.tool_name)
    /\ DictOrAbsent(input_data.tool_input)
    /\ StrOrAbsent(input_data.command)
    /\ StrOrAbsent(input_data.file_path)
    /\ StrOrAbsent(input_data.prompt)
    /\ input_data.stop_hook_active.t \in {"bool", "absent"}

Password == <<"p","a","s","s","w","o","r","d",":">>

\* the places where "password:" stands in the prompt, in any letter case
PasswordAt(i) == OccursAt(Lowered(input_data.prompt), i, Password)
HasPassword ==
    /\ input_data.prompt.t = "str"
    /\ \E i \in 1..Len(input_data.prompt.s) : PasswordAt(i)
HasPasswordAtWordStart ==
    /\ input_data.prompt.t = "str"
    /\ \E i \in 1..Len(input_data.prompt.s) :
        PasswordAt(i) /\ ~IsWord(At(input_data.prompt, i - 1))

BlockedAsPassword ==
    /\ stdout = <<Line("block", "Prompt contains potentially sensitive information: ",
                       <<"Password/Secret detected">>)>>
    /\ stderr = <<>>
    /\ exit_status = <<0>>

\* C1 as stated: every prompt that contains "password:" in any letter case,
\* wherever it stands, is blocked as Password/Secret, with no augment, exit 0.
C1_AnyPosition ==
    (Done /\ hook = "prompt-validator" /\ Object /\ HasPassword)
        => BlockedAsPassword

\* C1 amended: every prompt in which "password:" (any letter case) stands at
\* the start of the prompt or right after a character that is no letter,
\* digit or underscore is blocked with exactly one block decision whose
\* reason names Password/Secret detected, with no augment, and exits 0.
C1_PasswordBlocked ==
    (Done /\ hook = "prompt-validator" /\ Object /\ HasPasswordAtWordStart)
        => BlockedAsPassword

C1_Witness ==
    /\ Done /\ hook = "prompt-validator"
    /\ \E i \in 2..Len(input_data.prompt.s) :
        PasswordAt(i) /\ ~IsWord(At(input_data.prompt, i - 1))
    /\ input_data.prompt.s # Lowered(input_data.prompt).s
    /\ BlockedAsPassword

IsTool(name) == IsStr(input_data.tool_name, name)
PassedOnly ==
    /\ stdout = <<Line("info", "Security check passed", <<>>)>>
    /\ stderr = <<>>
    /\ exit_status = <<0>>
ViolationOnly ==
    /\ stdout = <<>>
    /\ stderr \in {<<"Security violation: Dangerous command blocked">>,
                   <<"Security violation: Cannot write to sensitive files">>}
    /\ exit_status = <<2>>

DangerousCommand ==
    IsTool(Bash) /\ \E c \in dangerous_commands :
        Contains(Lowered(Text(input_data.command)), c)
SensitivePathAsWritten ==
    IsTool(Write) /\ \E f \in sensitive_files :
        Contains(Text(input_data.file_path), f)
SensitivePathLowered ==
    IsTool(Write) /\ \E f \in sensitive_files :
        Contains(Lowered(Text(input_data.file_path)), f)

\* C2 as stated: on well-typed events the security validator exits 2 exactly
\* when the tool is Bash and the lower-cased command holds a dangerous
\* substring, or the tool is Write and the path holds a sensitive substring;
\* then only the violation message is written; otherwise pass and exit 0.
C2_PathAsWritten ==
    (Done /\ hook = "security-validator" /\ WellTyped) =>
        IF DangerousCommand \/ SensitivePathAsWritten
        THEN ViolationOnly ELSE PassedOnly

\* C2 amended: the same, with the path lower-cased before the search like
\* the command: exit 2 exactly when the tool is Bash and the lower-cased
\* command holds a dangerous substring, or the tool is Write and the
\* lower-cased path holds a sensitive substring.
C2_SecurityDecision ==
    (Done /\ hook = "security-validator" /\ WellTyped) =>
        IF DangerousCommand \/ SensitivePathLowered
        THEN ViolationOnly ELSE PassedOnly

C2_Witness ==
    /\ Done /\ hook = "security-validator" /\ WellTyped
    /\ IsTool(Bash)
    /\ input_data.command.s =
           <<"s","u","d","o"," ","a","p","t"," ","i","n","s","t","a","l","l">>
    /\ ViolationOnly

NoPatternMatches ==
    /\ ~CredentialKeyword(Text(input_data.prompt))
    /\ ~DeleteAll(Text(input_data.prompt))
    /\ ~DropTable(Text(input_data.prompt))
    /\ ~CardNumber(Text(input_data.prompt))
    /\ ~EmailAddress(Text(input_data.prompt))

PromptLength == TLen(Text(input_data.prompt))

\* C3: when no sensitive pattern matches, the prompt validator's outcome is
\* decided by the length alone: more than 10000 characters is a block with
\* the length reason, fewer than 10 an augment, 10 to 10000 no output at all;
\* each exits 0, and no run writes more than one document.
C3_LengthDecision ==
    (Done /\ hook = "prompt-validator" /\ WellTyped) =>
        /\ Len(stdout) <= 1
        /\ NoPatternMatches =>
            /\ exit_status = <<0>>
            /\ stderr = <<>>
            /\ stdout =
                 IF PromptLength > 10000
                 THEN <<Line("block", "Prompt is too long (>10000 characters)", <<>>)>>
                 ELSE IF PromptLength < 10
                 THEN <<Line("augment", "Note: This is a very short prompt. Consider providing more context for better results.",
                             <<"UserPromptSubmit">>)>>
                 ELSE <<>>

C3_Witness ==
    /\ Done /\ hook = "prompt-validator" /\ WellTyped
    /\ NoPatternMatches
    /\ PromptLength = 10
    /\ input_data.prompt.s # <<>>
    /\ stdout = <<>>
    /\ exit_status = <<0>>

WriteOfStringPath ==
    /\ hook = "auto-formatter"
    /\ Object
    /\ IsTool(Write)
    /\ input_data.tool_input.t = "dict"
    /\ input_data.file_path.t = "str"

\* C4 as stated: a Write event with a string path makes the auto-formatter
\* exit 0 whatever the formatter does.
C4_AlwaysZero == (Done /\ WriteOfStringPath) => exit_status = <<0>>

\* C4 amended: a Write event with a string path makes the auto-formatter
\* exit 0 when the formatter is not run, ends with any return code, is absent
\* (FileNotFoundError) or exceeds the wait (TimeoutExpired); when running it
\* raises any other exception the run exits 1 with the Hook error message
\* and no standard output.  It never exits 2.
C4_FormatterOutcome ==
    (Done /\ WriteOfStringPath) =>
        IF run_outcome \in {"OSError", "error"}
        THEN exit_status = <<1>> /\ stdout = <<>> /\ stderr = <<"Hook error: ">>
        ELSE exit_status = <<0>> /\ stderr = <<>>

C4_Witness ==
    /\ Done /\ WriteOfStringPath
    /\ run_outcome = "1"
    /\ exit_status = <<0>>
    /\ Len(stdout) = 1

\* the evaluations that raise: a document that is no object, a prompt that
\* is no string, and for the tool the hook looks at, a tool_input that is no
\* object or a command / file_path that is no string
Raises ==
    \/ ~Object
    \/ hook = "prompt-validator" /\ ~StrOrAbsent(input_data.prompt)
    \/ /\ hook = "security-validator" /\ IsTool(Bash)
       /\ ~DictOrAbsent(input_data.tool_input) \/ ~StrOrAbsent(input_data.command)
    \/ /\ hook \in {"security-validator", "auto-formatter"} /\ IsTool(Write)
       /\ ~DictOrAbsent(input_data.tool_input) \/ ~StrOrAbsent(input_data.file_path)

CompletedOnly ==
    /\ stdout = <<Line("info", "Claude Code execution completed successfully", <<>>)>>
    /\ stderr = <<>>

\* C6: for every JSON object the stop controller exits 0 and never blocks;
\* with stop_hook_active true it writes nothing, with the flag absent or
\* false it writes the completion message exactly once.
C6_StopNeverBlocks ==
    (Done /\ hook = "stop-controller" /\ Object) =>
        /\ exit_status = <<0>>
        /\ \A i \in DOMAIN stdout : stdout[i].kind # "block"
        /\ input_data.stop_hook_active = Bool(TRUE) => stdout = <<>> /\ stderr = <<>>
        /\ input_data.stop_hook_active \in {Absent, Bool(FALSE)} => CompletedOnly

C6_Witness ==
    /\ Done /\ hook = "stop-controller" /\ Object
    /\ input_data.stop_hook_active = Bool(FALSE)
    /\ CompletedOnly
    /\ exit_status = <<0>>

Missing(v) == v.t = "absent"
Silent == stdout = <<>> /\ stderr = <<>>
AugmentOnly ==
    /\ stdout = <<Line("augment", "Note: This is a very short prompt. Consider providing more context for better results.",
                       <<"UserPromptSubmit">>)>>
    /\ stderr = <<>>

\* each missing field takes its default branch
DefaultBranches ==
    /\ (hook = "prompt-validator" /\ Missing(input_data.prompt))
           => AugmentOnly /\ exit_status = <<0>>
    /\ (hook = "stop-controller" /\ Missing(input_data.stop_hook_active))
           => CompletedOnly /\ exit_status = <<0>>
    /\ (hook = "security-validator" /\
            \/ Missing(input_data.tool_name)
            \/ IsTool(Bash) /\ Missing(input_data.command)
            \/ IsTool(Write) /\ Missing(input_data.file_path))
           => PassedOnly
    /\ (hook = "auto-formatter" /\
            \/ Missing(input_data.tool_name)
            \/ IsTool(Write) /\ Missing(input_data.file_path))
           => launched = <<>> /\ Silent /\ exit_status = <<0>>

\* C7 as stated: on a JSON object with any of the optional fields missing no
\* hook exits 1, and each missing field takes its default branch.
C7_NeverOne ==
    (Done /\ WellTyped) => exit_status # <<1>> /\ DefaultBranches

\* C7 amended: on a JSON object with any of the optional fields missing (the
\* fields present being of the expected type) each missing field takes its
\* default branch, and the only run that exits 1 is an auto-formatter run in
\* which tool_name, tool_input and file_path are all present and running
\* the formatter raises an exception other than FileNotFoundError and
\* TimeoutExpired.
C7_MissingFieldsDefault ==
    (Done /\ WellTyped) =>
        /\ DefaultBranches
        /\ exit_status = <<1>> =>
            /\ hook = "auto-formatter"
            /\ run_outcome \in {"OSError", "error"}
            /\ ~Missing(input_data.tool_name)
            /\ ~Missing(input_data.tool_input)
            /\ ~Missing(input_data.file_path)

C7_Witness ==
    /\ Done /\ WellTyped /\ hook = "security-validator"
    /\ IsTool(Write)
    /\ Missing(input_data.tool_input)
    /\ PassedOnly

\* C8: every run ends, with exactly one exit status out of 0, 1 and 2, and 2
\* only from the security validator; the only state between reading the
\* document and the exit is the auto-formatter's wait for the formatter,
\* which lasts no longer than the timeout.
C8_Terminates ==
    /\ [](pc = "Waiting" => hook = "auto-formatter" /\ elapsed <= 10)
    /\ [](~Done => exit_status = <<>>)
    /\ <>[](/\ Done
            /\ Len(exit_status) = 1
            /\ exit_status[1] \in {0, 1, 2}
            /\ exit_status[1] = 2 => hook = "security-validator")

C8_Witness ==
    /\ Done /\ hook = "auto-formatter"
    /\ run_outcome = "TimeoutExpired"
    /\ elapsed = 10
    /\ exit_status = <<0>>

Matches(k) ==
    CASE k = 1 -> CredentialKeyword(input_data.prompt)
      [] k = 2 -> DeleteAll(input_data.prompt)
      [] k = 3 -> DropTable(input_data.prompt)
      [] k = 4 -> CardNumber(input_data.prompt)
      [] k = 5 -> EmailAddress(input_data.prompt)
Reasons ==
    <<"Password/Secret detected", "Dangerous delete operation",
      "Dangerous SQL operation", "Credit card number pattern", "Email address">>
Earliest(k) == Matches(k) /\ \A j \in 1..(k - 1) : ~Matches(j)

\* C9: when at least one pattern matches the prompt, the run writes exactly
\* one document, a block naming the description of the earliest matching
\* pattern in list order, and exits 0; the length checks do not run, so the
\* prompt's length changes nothing.
C9_FirstMatchWins ==
    (Done /\ hook = "prompt-validator" /\ Object /\ input_data.prompt.t = "str") =>
        \A k \in 1..5 :
            Earliest(k) =>
                /\ stdout = <<Line("block", "Prompt contains potentially sensitive information: ",
                                   <<Reasons[k]>>)>>
                /\ stderr = <<>>
                /\ exit_status = <<0>>

C9_Witness ==
    /\ Done /\ hook = "prompt-validator" /\ input_data.prompt.t = "str"
    /\ Earliest(2) /\ Matches(5)
    /\ TLen(input_data.prompt) > 10000
    /\ stdout = <<Line("block", "Prompt contains potentially sensitive information: ",
                       <<"Dangerous delete operation">>)>>

Suffix(v, k) ==
    IF Len(v.s) >= k THEN SubSeq(v.s, Len(v.s) - k + 1, Len(v.s)) ELSE <<>>
PathSuffix == Suffix(Text(input_data.file_path), 3)

\* C10: a formatter is run only for tool_name "Write", at most one per run,
\* picked by the end of the file path: .py the Python formatter, .js or .ts
\* the other one, anything else none; a run of the auto-formatter on a
\* well-typed event that runs no formatter writes nothing and exits 0.
C10_Dispatch ==
    /\ Len(launched) <= 1
    /\ launched # <<>> => hook = "auto-formatter" /\ IsTool(Write)
    /\ (hook = "auto-formatter" /\ WellTyped /\ pc # "Evaluating") =>
        /\ launched = IF ~IsTool(Write) THEN <<>>
                      ELSE IF PathSuffix = <<".","p","y">> THEN <<"black">>
                      ELSE IF PathSuffix \in {<<".","j","s">>, <<".","t","s">>}
                           THEN <<"prettier">>
                      ELSE <<>>
        /\ launched = <<>> => Silent /\ exit_status = <<0>>

C10_Witness ==
    /\ Done /\ hook = "auto-formatter" /\ WellTyped /\ IsTool(Write)
    /\ PathSuffix = <<".","t","s">>
    /\ launched = <<"prettier">>
    /\ run_outcome = "0"

=============================================================================
